---- MODULE Spec2Model ----
(* Backup lifecycle and point-in-time recovery of db-backup-management:      *)
(* BackupManager (backup/manager.py), RestoreManager (src/restore.py) and the *)
(* module-level producers of src/dboperations.py, over one storage tree       *)
(* backups/{full,incremental,temp}.                                           *)
EXTENDS Integers, Sequences, FiniteSets, TLC

(* ------------------------------------------------------------------------ *)
(* Bounds and scales.                                                         *)
(* Time is counted in ticks, the resolution of st_mtime / time.time().        *)
(* A datetime has TicksPerMicro ticks per microsecond, a file-name timestamp  *)
(* (strftime "%Y%m%d_%H%M%S") has MicrosPerSecond microseconds per second.    *)
(* ------------------------------------------------------------------------ *)
TicksPerMicro == 2

MicrosPerSecond == 2

MaxClock == 3

MaxCalls == 3

DumpLen == 1

MaxCommands == 1

MaxLen == 2

MaxByte == 2

(* ------------------------------------------------------------------------ *)
(* Time conversions.                                                          *)
(* ------------------------------------------------------------------------ *)

\* datetime.fromtimestamp(x): a float of seconds to a datetime of microsecond
\* resolution, rounding half to even.
FromTimestamp(t) ==
    LET q == t \div TicksPerMicro
        r == t % TicksPerMicro
    IN  IF 2 * r < TicksPerMicro THEN q
        ELSE IF 2 * r > TicksPerMicro THEN q + 1
        ELSE IF q % 2 = 0 THEN q ELSE q + 1

\* datetime.strftime("...%S"): a datetime cut to whole seconds.
Strftime(dt) == dt \div MicrosPerSecond

MaxDatetime == FromTimestamp(MaxClock)

Datetimes == 0..MaxDatetime

(* ------------------------------------------------------------------------ *)
(* Contents and the gzip codec.  A content is a sequence of bytes; a dump is  *)
(* the bytes 1..DumpLen.  A gzip stream is a header byte 0, the payload and a *)
(* trailer holding the payload's length (ISIZE), written as a non-positive    *)
(* number: content bytes are positive, so a stream cut short never ends in a  *)
(* matching trailer.                                                          *)
(* ------------------------------------------------------------------------ *)
DumpOutput == [i \in 1..DumpLen |-> i]

\* the contents the codec is exercised on: every byte string of at most
\* MaxLen bytes, the empty one included
Contents == UNION {[1..n -> 1..MaxByte] : n \in 0..MaxLen}

Prefixes(s) == {SubSeq(s, 1, n) : n \in 0..Len(s)}

ProperPrefixes(s) == {SubSeq(s, 1, n) : n \in 0..(Len(s) - 1)}

\* gzip.open(path, 'wb') + shutil.copyfileobj / writelines
Gzip(x) == <<0>> \o x \o <<0 - Len(x)>>

\* is the byte string a complete gzip stream (or empty: gzip reads a 0-byte
\* file as an empty stream without error)
GzipValid(y) ==
    \/ y = <<>>
    \/ /\ Len(y) >= 2
       /\ y[1] = 0
       /\ y[Len(y)] = 2 - Len(y)

\* fault variant of GzipPayload: the reader stops one byte early
GzipPayloadShort(y) ==
    IF Len(y) <= 3 THEN <<>> ELSE SubSeq(y, 2, Len(y) - 2)

\* the bytes a streaming reader hands out before the stream ends or breaks
GzipPayload(y) ==
    IF y = <<>> THEN <<>>
    ELSE IF GzipValid(y) THEN SubSeq(y, 2, Len(y) - 1)
    ELSE IF Len(y) >= 2 /\ y[1] = 0 THEN SubSeq(y, 2, Len(y))
    ELSE <<>>

(* ------------------------------------------------------------------------ *)
(* Paths.                                                                     *)
(* ------------------------------------------------------------------------ *)
NoStamp == 0 - 1

FullDir == "full"

IncrementalDir == "incremental"

\* fault variant of TempDir: the restore's scratch directory is the full
\* backup directory itself
TempDirIsFullDir == FullDir

TempDir == "temp"

BackupDir == "backups"

BackupPath(dir, stem, sec, gz) == [dir |-> dir, stem |-> stem, sec |-> sec, gz |-> gz]

\* Path.with_suffix(suffix + '.gz')
WithGz(p) == [p EXCEPT !.gz = TRUE]

NoPath == BackupPath("none", "none", NoStamp, FALSE)

VARIABLES
    now,        \* the clock, in ticks
    fs,         \* the storage tree: path -> [mtime, content]
    tempDirExists, \* does backups/temp exist
    calls,      \* calls started so far
    pc,         \* position of the running call ("idle": none)
    call,       \* the running (or last) call: its operation and arguments
    chain,      \* restore_to_point_in_time: the selected chain
    idx,        \* restore_to_point_in_time: artifacts applied so far
    pending,    \* the exception in flight through a finally / the content handed to _compress_file
    toolLog,    \* external tool invocations of the running (or last) call
    res,        \* outcome of the last finished call and the value it returned
    exitCode    \* exit status of the last command-line process (NoStamp: none ran)

vars == <<now, fs, tempDirExists, calls, pc, call, chain, idx, pending, toolLog, res,
          exitCode>>

(* ------------------------------------------------------------------------ *)
(* File-system helpers.                                                       *)
(* ------------------------------------------------------------------------ *)
\* open(p, 'w') ... write ... close: create or replace p
WriteFile(f, p, t, c) ==
    [q \in (DOMAIN f) \cup {p} |-> IF q = p THEN [mtime |-> t, content |-> c] ELSE f[q]]

\* fault variant of RemoveFile: the file stays
RemoveFileKeeps(f, p) == f

\* os.remove(p)
RemoveFile(f, p) == [q \in (DOMAIN f) \ {p} |-> f[q]]

\* shutil.rmtree(backups/temp)
RemoveTree(f, dir) == [q \in {x \in DOMAIN f : x.dir # dir} |-> f[q]]

\* dir.glob("*.sql*")
Glob(f, dir) == {p \in DOMAIN f : p.dir = dir}

\* datetime.fromtimestamp(p.stat().st_mtime)
CreatedAt(f, p) == FromTimestamp(f[p].mtime)

\* every order sorted(S, key=st_mtime) can return: ascending by st_mtime,
\* files of equal st_mtime in the (unspecified) order glob yields them
RECURSIVE SortedByMtime(_, _)
SortedByMtime(f, S) ==
    IF S = {} THEN {<<>>}
    ELSE UNION { {<<p>> \o s : s \in SortedByMtime(f, S \ {p})} :
                 p \in {q \in S : \A r \in S : f[q].mtime <= f[r].mtime} }

\* fault variant of StableSort: sorted(..., reverse=True), newest first
RECURSIVE StableSortDescending(_, _)
StableSortDescending(f, s) ==
    IF s = <<>> THEN <<>>
    ELSE LET rest == StableSortDescending(f, SubSeq(s, 1, Len(s) - 1))
             x == s[Len(s)]
             k == Cardinality({i \in 1..Len(rest) : f[rest[i]].mtime >= f[x].mtime})
         IN  SubSeq(rest, 1, k) \o <<x>> \o SubSeq(rest, k + 1, Len(rest))

\* sorted(seq, key=st_mtime) on a list: a stable insertion sort
RECURSIVE StableSort(_, _)
StableSort(f, s) ==
    IF s = <<>> THEN <<>>
    ELSE LET rest == StableSort(f, SubSeq(s, 1, Len(s) - 1))
             x == s[Len(s)]
             k == Cardinality({i \in 1..Len(rest) : f[rest[i]].mtime <= f[x].mtime})
         IN  SubSeq(rest, 1, k) \o <<x>> \o SubSeq(rest, k + 1, Len(rest))

Reverse(s) == [i \in 1..Len(s) |-> s[Len(s) + 1 - i]]

\* the order in which a directory hands out its entries (os.scandir under
\* Path.glob): not specified, but one and the same for one set of entries
RECURSIVE Scandir(_)
Scandir(S) ==
    IF S = {} THEN <<>>
    ELSE LET p == CHOOSE q \in S : TRUE
         IN  <<p>> \o Scandir(S \ {p})

Range(s) == {s[i] : i \in 1..Len(s)}

CatalogDirs == {FullDir, IncrementalDir}

\* the artifacts of the catalog: every file of full/ and incremental/
Catalog(f) == {p \in DOMAIN f : p.dir \in CatalogDirs}

NoCall == [op |-> "none", target |-> NoStamp, file |-> NoPath, compress |-> FALSE,
           provider |-> "none", which |-> "none", credentials |-> "none",
           uploadOk |-> {}, notify |-> "none", failAt |-> 0]

NoChain == [full |-> NoPath, incs |-> <<>>]

NoResult == [op |-> "none", outcome |-> "none", value |-> NoPath]

\* one run of an external tool: subprocess.run(cmd, ..., check=True)
Invocation(tool, artifact, data, since, exitOk) ==
    [tool |-> tool, artifact |-> artifact, data |-> data, since |-> since,
     exitOk |-> exitOk]

(* ------------------------------------------------------------------------ *)
(* Restore Executor.                                                          *)
(* ------------------------------------------------------------------------ *)

\* _decompress_file(compressed_path, output_path): the output file is opened
\* (created) and receives what the stream yields; a broken stream raises.
DecompressFile(f, compressed_path, output_path, t) ==
    [fs |-> WriteFile(f, output_path, t, GzipPayload(f[compressed_path].content)),
     ok |-> GzipValid(f[compressed_path].content)]

\* RestoreManager.restore_backup(backup_file, temp_dir), temp_dir existing.
\* toolOk: whether the mysql client exits 0.
RestoreBackup(f, backup_file, t, toolOk) ==
    IF backup_file.gz
    THEN LET temp_file == BackupPath(TempDir, "temp_restore", Strftime(FromTimestamp(t)), FALSE)
             d == DecompressFile(f, backup_file, temp_file, t)
             inv == Invocation("mysql", backup_file, d.fs[temp_file].content, NoStamp, toolOk)
         IN  IF ~d.ok
             THEN [fs |-> d.fs, outcome |-> "CodecError", log |-> <<>>]
             ELSE IF toolOk
             THEN [fs |-> RemoveFile(d.fs, temp_file), outcome |-> "ok", log |-> <<inv>>]
             ELSE [fs |-> d.fs, outcome |-> "RestoreToolFailed", log |-> <<inv>>]
    ELSE LET inv == Invocation("mysql", backup_file, f[backup_file].content, NoStamp, toolOk)
         IN  [fs |-> f,
              outcome |-> IF toolOk THEN "ok" ELSE "RestoreToolFailed",
              log |-> <<inv>>]

\* fault variant of ManagerRestoreBackup: after a successful restore the
\* artifact passed in is removed, the decompressed copy stays
ManagerRestoreBackupRemovesArtifact(f, backup_file, t, toolOk) ==
    IF backup_file.gz
    THEN LET temp_file == BackupPath(BackupDir, "temp_restore", NoStamp, FALSE)
             d == DecompressFile(f, backup_file, temp_file, t)
             inv == Invocation("mysql", backup_file, d.fs[temp_file].content, NoStamp, toolOk)
         IN  IF ~d.ok
             THEN [fs |-> d.fs, outcome |-> "CodecError", log |-> <<>>]
             ELSE IF toolOk
             THEN [fs |-> RemoveFile(d.fs, backup_file), outcome |-> "ok", log |-> <<inv>>]
             ELSE [fs |-> d.fs, outcome |-> "RestoreToolFailed", log |-> <<inv>>]
    ELSE LET inv == Invocation("mysql", backup_file, f[backup_file].content, NoStamp, toolOk)
         IN  [fs |-> f,
              outcome |-> IF toolOk THEN "ok" ELSE "RestoreToolFailed",
              log |-> <<inv>>]

\* BackupManager.restore_backup(backup_file)
ManagerRestoreBackup(f, backup_file, t, toolOk) ==
    IF backup_file.gz
    THEN LET temp_file == BackupPath(BackupDir, "temp_restore", NoStamp, FALSE)
             d == DecompressFile(f, backup_file, temp_file, t)
             inv == Invocation("mysql", backup_file, d.fs[temp_file].content, NoStamp, toolOk)
         IN  IF ~d.ok
             THEN [fs |-> d.fs, outcome |-> "CodecError", log |-> <<>>]
             ELSE IF toolOk
             THEN [fs |-> RemoveFile(d.fs, temp_file), outcome |-> "ok", log |-> <<inv>>]
             ELSE [fs |-> d.fs, outcome |-> "RestoreToolFailed", log |-> <<inv>>]
    ELSE LET inv == Invocation("mysql", backup_file, f[backup_file].content, NoStamp, toolOk)
         IN  [fs |-> f,
              outcome |-> IF toolOk THEN "ok" ELSE "RestoreToolFailed",
              log |-> <<inv>>]

(* ------------------------------------------------------------------------ *)
(* Chain Selector.                                                            *)
(* ------------------------------------------------------------------------ *)

\* fault variant of SuitableFullBackup: the scan runs oldest first
SuitableFullBackupOldest(f, full_backups, target_datetime) ==
    LET older == SelectSeq(full_backups,
                           LAMBDA b : CreatedAt(f, b) <= target_datetime)
    IN  IF older = <<>> THEN NoPath ELSE older[1]

\* fault variant of SuitableFullBackup: with no full backup at or before the
\* target, the oldest one is taken
SuitableFullBackupFallback(f, full_backups, target_datetime) ==
    LET older == SelectSeq(Reverse(full_backups),
                           LAMBDA b : CreatedAt(f, b) <= target_datetime)
    IN  IF older # <<>> THEN older[1]
        ELSE IF full_backups = <<>> THEN NoPath ELSE full_backups[1]

\* restore_to_point_in_time, the baseline: scan the full backups newest
\* first and take the first one created at or before the target
SuitableFullBackup(f, full_backups, target_datetime) ==
    LET older == SelectSeq(Reverse(full_backups),
                           LAMBDA b : CreatedAt(f, b) <= target_datetime)
    IN  IF older = <<>> THEN NoPath ELSE older[1]

\* fault variant of SuitableIncrementalBackups: the lower bound is inclusive
SuitableIncrementalBackupsInclusive(f, incremental_backups, suitable_full_backup, target_datetime) ==
    SelectSeq(incremental_backups,
              LAMBDA b : /\ CreatedAt(f, b) >= CreatedAt(f, suitable_full_backup)
                         /\ CreatedAt(f, b) <= target_datetime)

\* restore_to_point_in_time, the incrementals: those created after the
\* baseline and at or before the target, in listing order
SuitableIncrementalBackups(f, incremental_backups, suitable_full_backup, target_datetime) ==
    SelectSeq(incremental_backups,
              LAMBDA b : /\ CreatedAt(f, b) > CreatedAt(f, suitable_full_backup)
                         /\ CreatedAt(f, b) <= target_datetime)

(* ------------------------------------------------------------------------ *)
(* Initial state: BackupManager.__init__ has created the empty directories.   *)
(* ------------------------------------------------------------------------ *)
Init ==
    /\ now = 0
    /\ fs = << >>
    /\ tempDirExists = FALSE
    /\ calls = 0
    /\ pc = "idle"
    /\ call = NoCall
    /\ chain = NoChain
    /\ idx = 0
    /\ pending = "none"
    /\ toolLog = <<>>
    /\ res = NoResult
    /\ exitCode = NoStamp

\* time passes, between calls and inside them
Tick ==
    /\ UNCHANGED exitCode
    /\ now < MaxClock
    /\ now' = now + 1
    /\ UNCHANGED <<fs, tempDirExists, calls, pc, call, chain, idx, pending, toolLog, res>>

(* ------------------------------------------------------------------------ *)
(* Point-in-Time Orchestrator: RestoreManager.restore_to_point_in_time.       *)
(* ------------------------------------------------------------------------ *)

\* lines 81-100: list, select the chain, raise or create backups/temp
PointInTimeSelect ==
    /\ UNCHANGED exitCode
    /\ pc = "idle"
    /\ \E target_datetime \in Datetimes :
       \E full_backups \in SortedByMtime(fs, Glob(fs, FullDir)) :
       \E incremental_backups \in SortedByMtime(fs, Glob(fs, IncrementalDir)) :
          LET suitable_full_backup ==
                  SuitableFullBackup(fs, full_backups, target_datetime)
          IN  /\ call' = [NoCall EXCEPT !.op = "restore_to_point_in_time",
                                        !.target = target_datetime]
              /\ toolLog' = <<>>
              /\ idx' = 0
              /\ pending' = "none"
              /\ IF suitable_full_backup = NoPath
                 THEN /\ chain' = NoChain
                      /\ res' = [op |-> "restore_to_point_in_time",
                                 outcome |-> "NoSuitableBaseline", value |-> NoPath]
                      /\ pc' = "idle"
                      /\ UNCHANGED tempDirExists
                 ELSE /\ chain' = [full |-> suitable_full_backup,
                                   incs |-> StableSort(fs,
                                       SuitableIncrementalBackups(fs, incremental_backups,
                                           suitable_full_backup, target_datetime))]
                      /\ tempDirExists' = TRUE
                      /\ pc' = "applying"
                      /\ UNCHANGED res
    /\ UNCHANGED <<now, fs>>
    /\ calls < MaxCalls
    /\ calls' = calls + 1

\* the chain as one sequence: the full backup, then the incrementals
ChainSeq(c) == <<c.full>> \o c.incs

\* fault variant of NextArtifact: the loop passes the full backup again
NextArtifactFullAgain(c, i) == c.full

\* lines 104 and 106-108: the artifact the replay applies after i artifacts
NextArtifact(c, i) == IF i = 0 THEN c.full ELSE c.incs[i]

\* fault variant of ReplayStep: a failed artifact is skipped and the replay
\* goes on with the next one
ReplayStepKeepGoing(outcome, i, n) ==
    IF i + 1 > n
    THEN [idx |-> IF outcome = "ok" THEN i + 1 ELSE i, pc |-> "finally", pending |-> outcome]
    ELSE [idx |-> i + 1, pc |-> "applying", pending |-> "none"]

\* lines 102-114: where the replay stands after restore_backup returned or
\* raised on artifact i of a chain with n incrementals
ReplayStep(outcome, i, n) ==
    IF outcome = "ok"
    THEN IF i + 1 > n
         THEN [idx |-> i + 1, pc |-> "finally", pending |-> "ok"]
         ELSE [idx |-> i + 1, pc |-> "applying", pending |-> "none"]
    ELSE [idx |-> i, pc |-> "finally", pending |-> outcome]

\* lines 102-108: one restore_backup(backup, temp_dir) of the replay
PointInTimeApply ==
    /\ UNCHANGED exitCode
    /\ pc = "applying"
    /\ \E toolOk \in BOOLEAN :
          LET r == RestoreBackup(fs, NextArtifact(chain, idx), now, toolOk)
              s == ReplayStep(r.outcome, idx, Len(chain.incs))
          IN  /\ fs' = r.fs
              /\ toolLog' = toolLog \o r.log
              /\ idx' = s.idx
              /\ pc' = s.pc
              /\ pending' = s.pending
    /\ UNCHANGED <<now, tempDirExists, calls, call, chain, res>>

\* lines 115-117: if temp_dir.exists(): shutil.rmtree(temp_dir)
TempCleanup(f, exists) ==
    IF exists THEN [fs |-> RemoveTree(f, TempDir), exists |-> FALSE]
    ELSE [fs |-> f, exists |-> exists]

\* lines 112-117: the finally block, then return or re-raise
PointInTimeFinally ==
    /\ UNCHANGED exitCode
    /\ pc = "finally"
    /\ fs' = TempCleanup(fs, tempDirExists).fs
    /\ tempDirExists' = TempCleanup(fs, tempDirExists).exists
    /\ res' = [op |-> "restore_to_point_in_time", outcome |-> pending, value |-> NoPath]
    /\ pending' = "none"
    /\ pc' = "idle"
    /\ UNCHANGED <<now, calls, call, chain, idx, toolLog>>

(* ------------------------------------------------------------------------ *)
(* Stand-alone restores of one catalogued artifact.                           *)
(* ------------------------------------------------------------------------ *)

\* RestoreManager.restore_backup(backup_file): temp_dir is None, so
\* backups/temp is created (and left in place)
RestoreManagerRestore ==
    /\ UNCHANGED exitCode
    /\ pc = "idle"
    /\ \E backup_file \in Catalog(fs) : \E toolOk \in BOOLEAN :
          LET r == RestoreBackup(fs, backup_file, now, toolOk)
          IN  /\ fs' = r.fs
              /\ toolLog' = r.log
              /\ call' = [NoCall EXCEPT !.op = "RestoreManager.restore_backup",
                                        !.file = backup_file]
              /\ res' = [op |-> "RestoreManager.restore_backup",
                         outcome |-> r.outcome, value |-> NoPath]
    /\ tempDirExists' = TRUE
    /\ chain' = NoChain
    /\ idx' = 0
    /\ UNCHANGED <<now, pc, pending>>
    /\ calls < MaxCalls
    /\ calls' = calls + 1

\* BackupManager.restore_backup(backup_file)
BackupManagerRestore ==
    /\ UNCHANGED exitCode
    /\ pc = "idle"
    /\ \E backup_file \in Catalog(fs) : \E toolOk \in BOOLEAN :
          LET r == ManagerRestoreBackup(fs, backup_file, now, toolOk)
          IN  /\ fs' = r.fs
              /\ toolLog' = r.log
              /\ call' = [NoCall EXCEPT !.op = "BackupManager.restore_backup",
                                        !.file = backup_file]
              /\ res' = [op |-> "BackupManager.restore_backup",
                         outcome |-> r.outcome, value |-> NoPath]
    /\ chain' = NoChain
    /\ idx' = 0
    /\ UNCHANGED <<now, tempDirExists, pc, pending>>
    /\ calls < MaxCalls
    /\ calls' = calls + 1

(* ------------------------------------------------------------------------ *)
(* Catalog listing.                                                           *)
(* ------------------------------------------------------------------------ *)

\* fault variant of ListDir: the pattern "*.sql" misses the compressed files
ListDirUncompressedOnly(f, dir) ==
    StableSort(f, Scandir({p \in Glob(f, dir) : ~p.gz}))

\* sorted(dir.glob("*.sql*"), key=st_mtime)
ListDir(f, dir) == StableSort(f, Scandir(Glob(f, dir)))

\* BackupManager.list_backups / RestoreManager.get_available_backups: the
\* pair (full_backups, incremental_backups)
ListBackups(f) == [full |-> ListDir(f, FullDir), incs |-> ListDir(f, IncrementalDir)]

ListOps == {"BackupManager.list_backups", "RestoreManager.get_available_backups"}

\* fault variant of ListBackupsCall: the listing drops the empty files it
\* meets from the directories
ListBackupsCallPruning ==
    /\ pc = "idle"
    /\ calls < MaxCalls
    /\ calls' = calls + 1
    /\ \E op \in ListOps :
          /\ call' = [NoCall EXCEPT !.op = op]
          /\ res' = [op |-> op, outcome |-> "ok", value |-> ListBackups(fs)]
    /\ fs' = [p \in {q \in DOMAIN fs : fs[q].content # <<>>} |-> fs[p]]
    /\ toolLog' = <<>>
    /\ chain' = NoChain
    /\ idx' = 0
    /\ UNCHANGED <<now, tempDirExists, pc, pending, exitCode>>

\* one listing call, on either manager
ListBackupsCall ==
    /\ pc = "idle"
    /\ calls < MaxCalls
    /\ calls' = calls + 1
    /\ \E op \in ListOps :
          /\ call' = [NoCall EXCEPT !.op = op]
          /\ res' = [op |-> op, outcome |-> "ok", value |-> ListBackups(fs)]
    /\ toolLog' = <<>>
    /\ chain' = NoChain
    /\ idx' = 0
    /\ UNCHANGED <<now, fs, tempDirExists, pc, pending, exitCode>>

(* ------------------------------------------------------------------------ *)
(* Backup Producer: BackupManager.                                            *)
(* ------------------------------------------------------------------------ *)

\* BackupManager._get_timestamp / datetime.now().strftime("%Y%m%d_%H%M%S")
GetTimestamp(t) == Strftime(FromTimestamp(t))

\* what the dump tool leaves in its output file: the whole dump on exit 0,
\* a truncated (possibly empty) one on a non-zero exit
DumpWritten(dumpOk) == IF dumpOk THEN {DumpOutput} ELSE ProperPrefixes(DumpOutput)

\* BackupManager._get_last_full_backup: max(..., key=st_mtime), any of the
\* newest files when several share the greatest st_mtime
LastFullBackups(f) ==
    {p \in Glob(f, FullDir) : \A q \in Glob(f, FullDir) : f[q].mtime <= f[p].mtime}

\* create_full_backup lines 50-78, up to the call of _compress_file
CreateFullBackup ==
    /\ UNCHANGED exitCode
    /\ pc = "idle"
    /\ calls < MaxCalls
    /\ calls' = calls + 1
    /\ \E compress \in BOOLEAN : \E dumpOk \in BOOLEAN : \E out \in DumpWritten(dumpOk) :
          LET backup_file == BackupPath(FullDir, "full_backup", GetTimestamp(now), FALSE)
          IN  /\ call' = [NoCall EXCEPT !.op = "BackupManager.create_full_backup",
                                        !.file = backup_file, !.compress = compress]
              /\ fs' = WriteFile(fs, backup_file, now, out)
              /\ toolLog' = <<Invocation("mysqldump", backup_file, <<>>, NoStamp, dumpOk)>>
              /\ IF ~dumpOk
                 THEN /\ res' = [op |-> "BackupManager.create_full_backup",
                                 outcome |-> "DumpToolFailed", value |-> NoPath]
                      /\ pc' = "idle"
                 ELSE IF compress
                 THEN /\ pc' = "compressing"
                      /\ UNCHANGED res
                 ELSE /\ res' = [op |-> "BackupManager.create_full_backup",
                                 outcome |-> "ok", value |-> backup_file]
                      /\ pc' = "idle"
    /\ chain' = NoChain
    /\ idx' = 0
    /\ UNCHANGED <<now, tempDirExists, pending>>

\* create_incremental_backup lines 82-121, up to the call of _compress_file
CreateIncrementalBackup ==
    /\ UNCHANGED exitCode
    /\ pc = "idle"
    /\ calls < MaxCalls
    /\ calls' = calls + 1
    /\ chain' = NoChain
    /\ idx' = 0
    /\ UNCHANGED <<now, tempDirExists, pending>>
    /\ \E compress \in BOOLEAN :
          LET backup_file == BackupPath(IncrementalDir, "incremental_backup",
                                        GetTimestamp(now), FALSE)
              op == "BackupManager.create_incremental_backup"
          IN  /\ call' = [NoCall EXCEPT !.op = op, !.file = backup_file,
                                        !.compress = compress]
              /\ IF Glob(fs, FullDir) = {}
                 THEN /\ res' = [op |-> op, outcome |-> "NoBaselineBackup", value |-> NoPath]
                      /\ toolLog' = <<>>
                      /\ pc' = "idle"
                      /\ UNCHANGED fs
                 ELSE \E last_full_backup \in LastFullBackups(fs) :
                      LET temp_file == BackupPath(BackupDir, "temp", NoStamp, FALSE)
                          d == DecompressFile(fs, last_full_backup, temp_file, now)
                          last_backup_time ==
                              IF last_full_backup.gz
                              THEN CreatedAt(d.fs, temp_file)
                              ELSE CreatedAt(fs, last_full_backup)
                          formatted_time == Strftime(last_backup_time)
                          fs1 == IF last_full_backup.gz THEN RemoveFile(d.fs, temp_file) ELSE fs
                      IN  IF last_full_backup.gz /\ ~d.ok
                          THEN /\ fs' = d.fs
                               /\ res' = [op |-> op, outcome |-> "CodecError", value |-> NoPath]
                               /\ toolLog' = <<>>
                               /\ pc' = "idle"
                          ELSE \E dumpOk \in BOOLEAN : \E out \in DumpWritten(dumpOk) :
                               /\ fs' = WriteFile(fs1, backup_file, now, out)
                               /\ toolLog' = <<Invocation("mysqldump", backup_file, <<>>,
                                                          formatted_time, dumpOk)>>
                               /\ IF ~dumpOk
                                  THEN /\ res' = [op |-> op, outcome |-> "DumpToolFailed",
                                                  value |-> NoPath]
                                       /\ pc' = "idle"
                                  ELSE IF compress
                                  THEN /\ pc' = "compressing"
                                       /\ UNCHANGED res
                                  ELSE /\ res' = [op |-> op, outcome |-> "ok",
                                                  value |-> backup_file]
                                       /\ pc' = "idle"

\* _compress_file lines 25-28: write the compressed copy beside the original;
\* the write may break off part-way (OSError, e.g. no space left), which no
\* handler of the create methods catches
CompressFile ==
    /\ UNCHANGED exitCode
    /\ pc = "compressing"
    /\ \E writeOk \in BOOLEAN :
       \E out \in (IF writeOk THEN {Gzip(fs[call.file].content)}
                   ELSE ProperPrefixes(Gzip(fs[call.file].content))) :
          /\ fs' = WriteFile(fs, WithGz(call.file), now, out)
          /\ IF writeOk
             THEN /\ pc' = "removing"
                  /\ UNCHANGED res
             ELSE /\ pc' = "idle"
                  /\ res' = [op |-> call.op, outcome |-> "IOError", value |-> NoPath]
    /\ UNCHANGED <<now, tempDirExists, calls, call, chain, idx, pending, toolLog>>

\* _compress_file lines 29-31 and the return of the create method
RemoveOriginal ==
    /\ UNCHANGED exitCode
    /\ pc = "removing"
    /\ fs' = RemoveFile(fs, call.file)
    /\ res' = [op |-> call.op, outcome |-> "ok", value |-> WithGz(call.file)]
    /\ pc' = "idle"
    /\ UNCHANGED <<now, tempDirExists, calls, call, chain, idx, pending, toolLog>>

(* ------------------------------------------------------------------------ *)
(* Backup Producer: the functions of src/dboperations.py.                     *)
(* ------------------------------------------------------------------------ *)

\* lines 87-103 / 134-151: dump into backup_file, then (configuration
\* "compression", default on) gzip it in place of the original
DumpAndCompress(f, backup_file, t, dumpOk, out, compression, writeOk, gzOut) ==
    LET f1 == WriteFile(f, backup_file, t, out)
    IN  IF ~dumpOk
        THEN [fs |-> f1, outcome |-> "DumpToolFailed", value |-> NoPath]
        ELSE IF ~compression
        THEN [fs |-> f1, outcome |-> "ok", value |-> backup_file]
        ELSE IF ~writeOk
        THEN [fs |-> WriteFile(f1, WithGz(backup_file), t, gzOut),
              outcome |-> "IOError", value |-> NoPath]
        ELSE [fs |-> RemoveFile(WriteFile(f1, WithGz(backup_file), t, Gzip(out)), backup_file),
              outcome |-> "ok", value |-> WithGz(backup_file)]

\* the outcomes of one dump-and-compress the environment decides
DumpOutcomes ==
    {[dumpOk |-> d, out |-> o, compression |-> c, writeOk |-> w, gzOut |-> g] :
        d \in BOOLEAN, o \in Prefixes(DumpOutput), c \in BOOLEAN, w \in BOOLEAN,
        g \in Prefixes(Gzip(DumpOutput))}

DumpOutcomeOk(e) ==
    /\ e.out \in DumpWritten(e.dumpOk)
    /\ IF e.dumpOk /\ e.compression /\ ~e.writeOk
       THEN e.gzOut \in ProperPrefixes(Gzip(e.out))
       ELSE /\ e.gzOut = <<>>
            /\ (e.dumpOk /\ e.compression) \/ e.writeOk
    /\ e.dumpOk \/ e.compression

\* dboperations.create_full_backup()
DbCreateFullBackup ==
    /\ UNCHANGED exitCode
    /\ pc = "idle"
    /\ calls < MaxCalls
    /\ calls' = calls + 1
    /\ \E e \in {x \in DumpOutcomes : DumpOutcomeOk(x)} :
          LET backup_file == BackupPath(FullDir, "full_backup", GetTimestamp(now), FALSE)
              r == DumpAndCompress(fs, backup_file, now, e.dumpOk, e.out,
                                   e.compression, e.writeOk, e.gzOut)
          IN  /\ call' = [NoCall EXCEPT !.op = "dboperations.create_full_backup",
                                        !.file = backup_file, !.compress = e.compression]
              /\ fs' = r.fs
              /\ toolLog' = <<Invocation("mysqldump", backup_file, <<>>, NoStamp, e.dumpOk)>>
              /\ res' = [op |-> "dboperations.create_full_backup",
                         outcome |-> r.outcome, value |-> r.value]
    /\ chain' = NoChain
    /\ idx' = 0
    /\ UNCHANGED <<now, tempDirExists, pc, pending>>

\* dboperations.create_incremental_backup(since_datetime); NoStamp: None
DbCreateIncrementalBackup ==
    /\ UNCHANGED exitCode
    /\ pc = "idle"
    /\ calls < MaxCalls
    /\ calls' = calls + 1
    /\ \E e \in {x \in DumpOutcomes : DumpOutcomeOk(x)} :
       \E since_datetime \in {NoStamp, MaxDatetime} :
          LET backup_file == BackupPath(IncrementalDir, "incremental_backup",
                                        GetTimestamp(now), FALSE)
              r == DumpAndCompress(fs, backup_file, now, e.dumpOk, e.out,
                                   e.compression, e.writeOk, e.gzOut)
              where == IF since_datetime = NoStamp THEN NoStamp
                       ELSE Strftime(since_datetime)
          IN  /\ call' = [NoCall EXCEPT !.op = "dboperations.create_incremental_backup",
                                        !.target = since_datetime,
                                        !.file = backup_file, !.compress = e.compression]
              /\ fs' = r.fs
              /\ toolLog' = <<Invocation("mysqldump", backup_file, <<>>, where, e.dumpOk)>>
              /\ res' = [op |-> "dboperations.create_incremental_backup",
                         outcome |-> r.outcome, value |-> r.value]
    /\ chain' = NoChain
    /\ idx' = 0
    /\ UNCHANGED <<now, tempDirExists, pc, pending>>

(* ------------------------------------------------------------------------ *)
(* The program: one call at a time (section 5: single-threaded, sequential).  *)
(* ------------------------------------------------------------------------ *)
Next ==
    \/ Tick
    \/ CreateFullBackup
    \/ CreateIncrementalBackup
    \/ CompressFile
    \/ RemoveOriginal
    \/ DbCreateFullBackup
    \/ DbCreateIncrementalBackup
    \/ RestoreManagerRestore
    \/ BackupManagerRestore
    \/ PointInTimeSelect
    \/ PointInTimeApply
    \/ PointInTimeFinally
    \/ ListBackupsCall

Spec == Init /\ [][Next]_vars

(* ------------------------------------------------------------------------ *)
(* The command line: src/cli.py over BackupManager, cloud_store and           *)
(* notifications, and the commands of src/restore.py.  A command is one       *)
(* process: it runs from start to exit in one step.                           *)
(* ------------------------------------------------------------------------ *)

\* BackupManager.create_full_backup(compress), from call to return or raise;
\* e: what the dump tool and the disk do
ManagerCreateFullBackup(f, t, e) ==
    LET backup_file == BackupPath(FullDir, "full_backup", GetTimestamp(t), FALSE)
        r == DumpAndCompress(f, backup_file, t, e.dumpOk, e.out,
                             e.compression, e.writeOk, e.gzOut)
    IN  [fs |-> r.fs, outcome |-> r.outcome, value |-> r.value,
         log |-> <<Invocation("mysqldump", backup_file, <<>>, NoStamp, e.dumpOk)>>]

\* BackupManager.create_incremental_backup(compress), from call to return or
\* raise; last_full_backup: the file _get_last_full_backup returns
ManagerCreateIncrementalBackup(f, t, e, last_full_backup) ==
    LET backup_file == BackupPath(IncrementalDir, "incremental_backup",
                                  GetTimestamp(t), FALSE)
        temp_file == BackupPath(BackupDir, "temp", NoStamp, FALSE)
    IN  IF last_full_backup = NoPath
        THEN [fs |-> f, outcome |-> "NoBaselineBackup", value |-> NoPath, log |-> <<>>]
        ELSE LET d == DecompressFile(f, last_full_backup, temp_file, t)
                 last_backup_time ==
                     IF last_full_backup.gz
                     THEN CreatedAt(d.fs, temp_file)
                     ELSE CreatedAt(f, last_full_backup)
                 fs1 == IF last_full_backup.gz THEN RemoveFile(d.fs, temp_file) ELSE f
                 r == DumpAndCompress(fs1, backup_file, t, e.dumpOk, e.out,
                                      e.compression, e.writeOk, e.gzOut)
             IN  IF last_full_backup.gz /\ ~d.ok
                 THEN [fs |-> d.fs, outcome |-> "CodecError", value |-> NoPath,
                       log |-> <<>>]
                 ELSE [fs |-> r.fs, outcome |-> r.outcome, value |-> r.value,
                       log |-> <<Invocation("mysqldump", backup_file, <<>>,
                                            Strftime(last_backup_time), e.dumpOk)>>]

Providers == {"s3", "gcs", "azure"}

\* the keyword parameters of upload_to_s3 / upload_to_gcs / upload_to_azure
\* (beside file_path)
UploadParameters(provider) ==
    CASE provider = "s3" ->
             {"bucket_name", "aws_access_key_id", "aws_secret_access_key", "region"}
      [] provider = "gcs" -> {"bucket_name", "credentials_path"}
      [] provider = "azure" -> {"container_name", "connection_string"}

\* those of them without a default value
RequiredParameters(provider) ==
    CASE provider = "s3" -> {"bucket_name"}
      [] provider = "gcs" -> {"bucket_name"}
      [] provider = "azure" -> {"container_name", "connection_string"}

\* cli.py 81-102 / 139-158: the keyword arguments built for backup_to_cloud;
\* credentials: "none" (no --credentials), "readable" or "unreadable" (the
\* file cannot be opened or parsed)
CloudArgs(provider, credentials) ==
    {"bucket_name"} \cup
    (IF credentials = "none" THEN {}
     ELSE CASE provider = "s3" ->
                   {"aws_access_key_id", "aws_secret_access_key", "region"}
            [] provider = "gcs" -> {"credentials_path"}
            [] provider = "azure" -> {"connection_string"})

\* does building the cloud arguments raise (open / json.load of the
\* credentials file; gcs only passes the path on)
CloudArgsRaise(provider, credentials) ==
    credentials = "unreadable" /\ provider \in {"s3", "azure"}

\* backup_to_cloud(backup_file, cloud_provider, **kwargs): a call with a
\* keyword the provider's function does not take, or without one it requires,
\* raises TypeError before the function is entered; inside, every failure is
\* caught and turned into False.  uploadOk: whether the transfer goes through.
BackupToCloud(f, backup_file, cloud_provider, kwargs, uploadOk) ==
    IF backup_file \notin DOMAIN f
    THEN [raised |-> "none", success |-> FALSE, log |-> <<>>]
    ELSE IF ~(kwargs \subseteq UploadParameters(cloud_provider))
            \/ ~(RequiredParameters(cloud_provider) \subseteq kwargs)
    THEN [raised |-> "TypeError", success |-> FALSE, log |-> <<>>]
    ELSE [raised |-> "none", success |-> uploadOk,
          log |-> <<Invocation(cloud_provider, backup_file, f[backup_file].content,
                               NoStamp, uploadOk)>>]

\* handle_backup(args, manager): create is the outcome of the create call;
\* upload: "none" or a provider.  What the handler returns (NoPath: None).
HandleBackup(create, upload, credentials, uploadOk) ==
    IF create.outcome # "ok"
    THEN [fs |-> create.fs, returned |-> NoPath, log |-> create.log]
    ELSE IF upload = "none"
    THEN [fs |-> create.fs, returned |-> create.value, log |-> create.log]
    ELSE IF CloudArgsRaise(upload, credentials)
    THEN [fs |-> create.fs, returned |-> NoPath, log |-> create.log]
    ELSE LET c == BackupToCloud(create.fs, create.value, upload,
                                CloudArgs(upload, credentials), uploadOk)
         IN  [fs |-> create.fs,
              returned |-> IF c.raised # "none" THEN NoPath ELSE create.value,
              log |-> create.log \o c.log]

\* main() of cli.py, lines 221-230: the handlers' return values are dropped
\* and the process ends normally unless an exception escaped the handler
CliExitCode(escaped) == IF escaped = "none" THEN 0 ELSE 1

\* cli.py backup {full,incremental} [--no-compress] [--upload P] [--credentials F]
CliBackup ==
    /\ pc = "idle"
    /\ calls < MaxCommands
    /\ calls' = calls + 1
    /\ \E type \in {"full", "incremental"} :
       \E e \in {x \in DumpOutcomes : DumpOutcomeOk(x)} :
       \E last_full_backup \in
             (IF Glob(fs, FullDir) = {} THEN {NoPath} ELSE LastFullBackups(fs)) :
       \E upload \in {"none"} \cup Providers :
       \E credentials \in {"none", "readable", "unreadable"} :
       \E uploadOk \in BOOLEAN :
          LET create == IF type = "full"
                        THEN ManagerCreateFullBackup(fs, now, e)
                        ELSE ManagerCreateIncrementalBackup(fs, now, e, last_full_backup)
              h == HandleBackup(create, upload, credentials, uploadOk)
          IN  /\ (upload = "none" => credentials = "none" /\ uploadOk)
              /\ call' = [NoCall EXCEPT !.op = "cli.py backup", !.which = type,
                                        !.compress = e.compression,
                                        !.provider = upload,
                                        !.credentials = credentials,
                                        !.uploadOk = IF uploadOk THEN {1} ELSE {}]
              /\ fs' = h.fs
              /\ toolLog' = h.log
              /\ res' = [op |-> "cli.py backup", outcome |-> create.outcome,
                         value |-> h.returned]
              /\ exitCode' = CliExitCode("none")
    /\ chain' = NoChain
    /\ idx' = 0
    /\ UNCHANGED <<now, tempDirExists, pc, pending>>

\* cli.py list
CliList ==
    /\ pc = "idle"
    /\ calls < MaxCommands
    /\ calls' = calls + 1
    /\ call' = [NoCall EXCEPT !.op = "cli.py list"]
    /\ res' = [op |-> "cli.py list", outcome |-> "ok", value |-> ListBackups(fs)]
    /\ exitCode' = CliExitCode("none")
    /\ toolLog' = <<>>
    /\ chain' = NoChain
    /\ idx' = 0
    /\ UNCHANGED <<now, fs, tempDirExists, pc, pending>>

\* what the environment does to a notification: delivered, the notifications
\* module (or requests) cannot be imported, SLACK_WEBHOOK_URL is not set, the
\* HTTP post fails
NotifyEnvs == {"ok", "import_error", "no_webhook", "http_error"}

\* notify_backup_status, notifications.py 60-91: the notifier, the message and
\* the post all run inside try / except Exception, and send_notification
\* turns a failed post into False: nothing is raised.  The post is logged.
NotifyBackupStatus(env, backup_file, success) ==
    [raised |-> "none",
     log |-> IF env \in {"ok", "http_error"}
             THEN <<Invocation(IF success THEN "slack good" ELSE "slack danger",
                               backup_file, <<>>, NoStamp, env = "ok")>>
             ELSE <<>>]

\* cli.py 171-178 / 188-195: the import, then the call
NotifyAttempt(env, backup_file, success) ==
    IF env = "import_error"
    THEN [raised |-> "ImportError", log |-> <<>>]
    ELSE NotifyBackupStatus(env, backup_file, success)

\* fault variant of LoopNotifyClauses: the try has no except clause
NoClauses == {}

\* the except clauses around the notification inside the loop, lines 179-182
LoopNotifyClauses == {"ImportError", "Exception"}

\* the except clauses around the failure notification, lines 196-199
FailureNotifyClauses == {"ImportError", "Exception"}

\* the exception that gets past a set of except clauses ("none": none does)
Escapes(clauses, exc) ==
    IF exc = "none" \/ exc \in clauses \/ "Exception" \in clauses THEN "none" ELSE exc

\* cli.py 165-182: the loop over backup_files from position i on; uploadOk:
\* the positions whose transfer goes through (the commands try every run with
\* one failing transfer, and the run with none).  raised: the exception that left
\* the loop, at: the position it left from.
RECURSIVE UploadLoop(_, _, _, _, _, _, _)
UploadLoop(f, backup_files, i, provider, kwargs, uploadOk, env) ==
    IF i > Len(backup_files)
    THEN [raised |-> "none", at |-> 0, log |-> <<>>]
    ELSE LET backup_file == backup_files[i]
             c == BackupToCloud(f, backup_file, provider, kwargs, i \in uploadOk)
             n == NotifyAttempt(env, backup_file, TRUE)
             esc == Escapes(LoopNotifyClauses, n.raised)
             rest == UploadLoop(f, backup_files, i + 1, provider, kwargs, uploadOk, env)
         IN  IF c.raised # "none"
             THEN [raised |-> c.raised, at |-> i, log |-> c.log]
             ELSE IF esc # "none"
             THEN [raised |-> esc, at |-> i, log |-> c.log \o n.log]
             ELSE [raised |-> rest.raised, at |-> rest.at,
                   log |-> c.log \o n.log \o rest.log]

\* cli.py 131-133: both lineages in one list, by st_mtime
AllBackups(f) == StableSort(f, ListBackups(f).full \o ListBackups(f).incs)

\* cli.py 160-163
BackupFiles(f, which) ==
    IF which = "latest" THEN <<AllBackups(f)[Len(AllBackups(f))]>> ELSE AllBackups(f)

\* handle_upload(args, manager).  An exception from the credentials file or
\* from the loop lands in the handler of line 184, which sends a failure
\* notification for the artifact in hand; with none in hand backup_file is
\* unbound there (UnboundLocalError).
HandleUpload(f, which, provider, credentials, uploadOk, env) ==
    IF AllBackups(f) = <<>>
    THEN [escaped |-> "none", log |-> <<>>, failed |-> FALSE]
    ELSE IF CloudArgsRaise(provider, credentials)
    THEN [escaped |-> Escapes(FailureNotifyClauses,
                              IF env = "import_error" THEN "ImportError"
                              ELSE "UnboundLocalError"),
          log |-> <<>>, failed |-> TRUE]
    ELSE LET loop == UploadLoop(f, BackupFiles(f, which), 1, provider,
                                CloudArgs(provider, credentials), uploadOk, env)
             n == NotifyAttempt(env, BackupFiles(f, which)[loop.at], FALSE)
         IN  IF loop.raised = "none"
             THEN [escaped |-> "none", log |-> loop.log,
                   failed |-> \E i \in 1..Len(loop.log) : ~loop.log[i].exitOk
                                                          /\ loop.log[i].tool \in Providers]
             ELSE [escaped |-> Escapes(FailureNotifyClauses, n.raised),
                   log |-> loop.log \o n.log, failed |-> TRUE]

\* cli.py upload {latest,all} PROVIDER --bucket B [--credentials F]
CliUpload ==
    /\ pc = "idle"
    /\ calls < MaxCommands
    /\ calls' = calls + 1
    /\ \E which \in {"latest", "all"} :
       \E provider \in Providers :
       \E credentials \in {"none", "readable", "unreadable"} :
       \E env \in NotifyEnvs :
       \E failAt \in 0..(IF which = "latest" THEN 1 ELSE Cardinality(Catalog(fs))) :
          LET uploadOk == (1..Cardinality(Catalog(fs))) \ {failAt}
              h == HandleUpload(fs, which, provider, credentials, uploadOk, env)
          IN  /\ call' = [NoCall EXCEPT !.op = "cli.py upload", !.which = which,
                                        !.provider = provider,
                                        !.credentials = credentials,
                                        !.uploadOk = uploadOk, !.notify = env]
              /\ toolLog' = h.log
              /\ res' = [op |-> "cli.py upload",
                         outcome |-> IF h.failed THEN "UploadFailed" ELSE "ok",
                         value |-> NoPath]
              /\ exitCode' = CliExitCode(h.escaped)
    /\ chain' = NoChain
    /\ idx' = 0
    /\ UNCHANGED <<now, fs, tempDirExists, pc, pending>>

\* handle_restore(args, manager): every exception is caught and printed
HandleRestore(f, file, t, toolOk) ==
    IF file \notin DOMAIN f
    THEN [fs |-> f, outcome |-> "BackupFileNotFound", log |-> <<>>, escaped |-> "none"]
    ELSE LET r == ManagerRestoreBackup(f, file, t, toolOk)
         IN  [fs |-> r.fs, outcome |-> r.outcome, log |-> r.log, escaped |-> "none"]

\* cli.py restore FILE; FILE: a catalogued artifact or a path with no file
CliRestore ==
    /\ pc = "idle"
    /\ calls < MaxCommands
    /\ calls' = calls + 1
    /\ \E file \in Catalog(fs) \cup {NoPath} : \E toolOk \in BOOLEAN :
          LET h == HandleRestore(fs, file, now, toolOk)
          IN  /\ call' = [NoCall EXCEPT !.op = "cli.py restore", !.file = file]
              /\ fs' = h.fs
              /\ toolLog' = h.log
              /\ res' = [op |-> "cli.py restore", outcome |-> h.outcome, value |-> NoPath]
              /\ exitCode' = CliExitCode(h.escaped)
    /\ chain' = NoChain
    /\ idx' = 0
    /\ UNCHANGED <<now, tempDirExists, pc, pending>>

\* main() of restore.py, lines 152-177: sys.exit(1) for a missing file, and
\* every exception of the command is caught and ends in sys.exit(1)
RestoreMainExitCode(outcome) == IF outcome = "ok" THEN 0 ELSE 1

\* restore.py list
RestoreMainList ==
    /\ pc = "idle"
    /\ calls < MaxCommands
    /\ calls' = calls + 1
    /\ call' = [NoCall EXCEPT !.op = "restore.py list"]
    /\ res' = [op |-> "restore.py list", outcome |-> "ok", value |-> ListBackups(fs)]
    /\ exitCode' = RestoreMainExitCode("ok")
    /\ toolLog' = <<>>
    /\ chain' = NoChain
    /\ idx' = 0
    /\ UNCHANGED <<now, fs, tempDirExists, pc, pending>>

\* restore.py restore FILE
RestoreMainRestore ==
    /\ pc = "idle"
    /\ calls < MaxCommands
    /\ calls' = calls + 1
    /\ \E file \in Catalog(fs) \cup {NoPath} : \E toolOk \in BOOLEAN :
          LET r == RestoreBackup(fs, file, now, toolOk)
          IN  /\ call' = [NoCall EXCEPT !.op = "restore.py restore", !.file = file]
              /\ IF file \notin DOMAIN fs
                 THEN /\ res' = [op |-> "restore.py restore",
                                 outcome |-> "BackupFileNotFound", value |-> NoPath]
                      /\ toolLog' = <<>>
                      /\ UNCHANGED <<fs, tempDirExists>>
                 ELSE /\ res' = [op |-> "restore.py restore", outcome |-> r.outcome,
                                 value |-> NoPath]
                      /\ toolLog' = r.log
                      /\ fs' = r.fs
                      /\ tempDirExists' = TRUE
              /\ exitCode' = RestoreMainExitCode(res'.outcome)
    /\ chain' = NoChain
    /\ idx' = 0
    /\ UNCHANGED <<now, pc, pending>>

\* restore.py 102-110: restore_backup on the artifacts of the chain from
\* position i on, stopping at the first that raises; failAt: the position at
\* which the mysql client exits non-zero (0: nowhere)
RECURSIVE Replay(_, _, _, _, _)
Replay(f, artifacts, i, t, failAt) ==
    IF i > Len(artifacts)
    THEN [fs |-> f, outcome |-> "ok", log |-> <<>>]
    ELSE LET r == RestoreBackup(f, artifacts[i], t, i # failAt)
             rest == Replay(r.fs, artifacts, i + 1, t, failAt)
         IN  IF r.outcome # "ok"
             THEN [fs |-> r.fs, outcome |-> r.outcome, log |-> r.log]
             ELSE [fs |-> rest.fs, outcome |-> rest.outcome, log |-> r.log \o rest.log]

\* restore_to_point_in_time(target_datetime) from call to return or raise
PointInTimeRestore(f, exists, target_datetime, t, failAt) ==
    LET suitable_full_backup ==
            SuitableFullBackup(f, ListBackups(f).full, target_datetime)
        suitable_incremental_backups ==
            StableSort(f, SuitableIncrementalBackups(f, ListBackups(f).incs,
                                                     suitable_full_backup, target_datetime))
        r == Replay(f, <<suitable_full_backup>> \o suitable_incremental_backups,
                    1, t, failAt)
        c == TempCleanup(r.fs, TRUE)
    IN  IF suitable_full_backup = NoPath
        THEN [fs |-> f, exists |-> exists, outcome |-> "NoSuitableBaseline", log |-> <<>>]
        ELSE [fs |-> c.fs, exists |-> c.exists, outcome |-> r.outcome, log |-> r.log]

\* restore.py point "YYYY-MM-DD HH:MM:SS"
RestoreMainPoint ==
    /\ pc = "idle"
    /\ calls < MaxCommands
    /\ calls' = calls + 1
    /\ \E target_datetime \in Datetimes :
       \E failAt \in 0..Cardinality(Catalog(fs)) :
          LET r == PointInTimeRestore(fs, tempDirExists, target_datetime, now, failAt)
          IN  /\ call' = [NoCall EXCEPT !.op = "restore.py point",
                                        !.target = target_datetime, !.failAt = failAt]
              /\ fs' = r.fs
              /\ tempDirExists' = r.exists
              /\ toolLog' = r.log
              /\ res' = [op |-> "restore.py point", outcome |-> r.outcome,
                         value |-> NoPath]
              /\ exitCode' = RestoreMainExitCode(r.outcome)
    /\ chain' = NoChain
    /\ idx' = 0
    /\ UNCHANGED <<now, pc, pending>>

CliNext ==
    \/ Tick
    \/ CliBackup
    \/ CliList
    \/ CliUpload
    \/ CliRestore
    \/ RestoreMainList
    \/ RestoreMainRestore
    \/ RestoreMainPoint

\* the catalogs a command is run on, as earlier commands left them: empty; a
\* compressed full backup made at tick 0; that and an uncompressed incremental
\* made at tick 1; those and an uncompressed full backup made at tick 2
InitialCatalogs ==
    LET full == BackupPath(FullDir, "full_backup", GetTimestamp(0), TRUE)
        incr == BackupPath(IncrementalDir, "incremental_backup", GetTimestamp(1), FALSE)
        full2 == BackupPath(FullDir, "full_backup", GetTimestamp(2), FALSE)
        one == WriteFile(<< >>, full, 0, Gzip(DumpOutput))
        two == WriteFile(one, incr, 1, DumpOutput)
    IN  {<< >>, one, two, WriteFile(two, full2, 2, DumpOutput)}

CliInit ==
    /\ now = 2
    /\ fs \in InitialCatalogs
    /\ tempDirExists = FALSE
    /\ calls = 0
    /\ pc = "idle"
    /\ call = NoCall
    /\ chain = NoChain
    /\ idx = 0
    /\ pending = "none"
    /\ toolLog = <<>>
    /\ res = NoResult
    /\ exitCode = NoStamp

CliSpec == CliInit /\ [][CliNext]_vars

(* ------------------------------------------------------------------------ *)
(* The codec on its own: _compress_file and _decompress_file applied to a     *)
(* file of any content.                                                       *)
(* ------------------------------------------------------------------------ *)

\* one uncompressed file of some content in full/, nothing else
CodecInit ==
    /\ now = 0
    /\ \E x \in Contents :
          fs = WriteFile(<< >>, BackupPath(FullDir, "full_backup", 0, FALSE), 0, x)
    /\ tempDirExists = FALSE
    /\ calls = 0
    /\ pc = "idle"
    /\ call = NoCall
    /\ chain = NoChain
    /\ idx = 0
    /\ pending = <<>>
    /\ toolLog = <<>>
    /\ res = NoResult
    /\ exitCode = NoStamp

\* _compress_file(file_path), line 25: entered on an uncompressed file
CodecCompressStart ==
    /\ pc = "idle"
    /\ calls < MaxCalls
    /\ calls' = calls + 1
    /\ \E file_path \in {p \in DOMAIN fs : ~p.gz} :
          /\ call' = [NoCall EXCEPT !.op = "_compress_file", !.file = file_path]
          /\ pending' = fs[file_path].content
    /\ pc' = "compressing"
    /\ UNCHANGED <<now, fs, tempDirExists, chain, idx, toolLog, res, exitCode>>

\* _decompress_file(compressed_path, output_path): output_path given
\* (backups/temp.sql) or None (the path without its .gz suffix)
CodecDecompress ==
    /\ pc = "idle"
    /\ calls < MaxCalls
    /\ calls' = calls + 1
    /\ \E compressed_path \in {p \in DOMAIN fs : p.gz} :
       \E output_path \in {BackupPath(BackupDir, "temp", NoStamp, FALSE),
                           [compressed_path EXCEPT !.gz = FALSE]} :
          LET d == DecompressFile(fs, compressed_path, output_path, now)
          IN  /\ fs' = d.fs
              /\ call' = [NoCall EXCEPT !.op = "_decompress_file",
                                        !.file = compressed_path]
              /\ res' = [op |-> "_decompress_file",
                         outcome |-> IF d.ok THEN "ok" ELSE "CodecError",
                         value |-> output_path]
    /\ UNCHANGED <<now, tempDirExists, pc, chain, idx, pending, toolLog, exitCode>>

CodecNext ==
    \/ Tick
    \/ CodecCompressStart
    \/ CompressFile
    \/ RemoveOriginal
    \/ CodecDecompress

CodecSpec == CodecInit /\ [][CodecNext]_vars

(* ------------------------------------------------------------------------ *)
(* Properties.                                                                *)
(* The catalog does not change while restore_to_point_in_time is the last     *)
(* started call, so the chain it selected is compared with the catalog as it  *)
(* stands.                                                                    *)
(* ------------------------------------------------------------------------ *)
PointInTime == "restore_to_point_in_time"

\* restore_to_point_in_time is the call running, or the last one that ran
PitrStarted == call.op = PointInTime

\* restore_to_point_in_time has returned (outcome "ok") or raised
PitrDone(outcome) ==
    /\ PitrStarted
    /\ pc = "idle"
    /\ res.op = PointInTime
    /\ res.outcome = outcome

FullBackups == Glob(fs, FullDir)

IncrementalBackups == Glob(fs, IncrementalDir)

\* the bytes the restore tool must read for artifact p
ArtifactData(f, p) == IF p.gz THEN GzipPayload(f[p].content) ELSE f[p].content

\* C1: whenever some full backup was created at or before the target, the
\* selected baseline is a full backup created at or before the target
\* (inclusive), and no full backup at or before the target is newer than it.
C1_BaselineIsLatestNotAfterTarget ==
    (PitrStarted /\ \E p \in FullBackups : CreatedAt(fs, p) <= call.target)
    => /\ chain.full \in FullBackups
       /\ CreatedAt(fs, chain.full) <= call.target
       /\ \A q \in FullBackups :
             CreatedAt(fs, q) <= call.target
             => CreatedAt(fs, q) <= CreatedAt(fs, chain.full)

\* a baseline created exactly at the target was selected while a newer full
\* backup exists
C1_Witness ==
    /\ PitrStarted
    /\ chain.full \in FullBackups
    /\ CreatedAt(fs, chain.full) = call.target
    /\ \E q \in FullBackups : CreatedAt(fs, q) > call.target

\* C2: once a baseline is selected, the incrementals of the chain are exactly
\* the catalogued incrementals created after the baseline and at or before
\* the target, each of them once.
C2_IncrementalsAreExactlyTheWindow ==
    (PitrStarted /\ chain.full # NoPath)
    => /\ Range(chain.incs) =
             {p \in IncrementalBackups :
                 /\ CreatedAt(fs, chain.full) < CreatedAt(fs, p)
                 /\ CreatedAt(fs, p) <= call.target}
       /\ Cardinality(Range(chain.incs)) = Len(chain.incs)

\* a chain with an incremental inside the window while another catalogued
\* incremental lies outside it
C2_Witness ==
    /\ PitrStarted
    /\ chain.full # NoPath
    /\ chain.incs # <<>>
    /\ \E p \in IncrementalBackups : p \notin Range(chain.incs)

\* C3 (as claimed): the incrementals of the chain are strictly ascending by
\* createdAt.
C3_StrictlyAscending ==
    PitrStarted
    => \A i \in 1..(Len(chain.incs) - 1) :
          CreatedAt(fs, chain.incs[i]) < CreatedAt(fs, chain.incs[i + 1])

\* C3 (amended): the incrementals of the chain are ascending by createdAt,
\* entries of equal createdAt being adjacent; the order is strict whenever no
\* two incrementals of the chain share a createdAt.
C3_Ascending ==
    PitrStarted
    => /\ \A i, j \in 1..Len(chain.incs) :
             i < j => CreatedAt(fs, chain.incs[i]) <= CreatedAt(fs, chain.incs[j])
       /\ (\A p, q \in Range(chain.incs) :
              p # q => CreatedAt(fs, p) # CreatedAt(fs, q))
          => \A i \in 1..(Len(chain.incs) - 1) :
                CreatedAt(fs, chain.incs[i]) < CreatedAt(fs, chain.incs[i + 1])

\* a chain holding two incrementals of equal createdAt, one after the other
C3_Witness ==
    /\ PitrStarted
    /\ Len(chain.incs) >= 2
    /\ CreatedAt(fs, chain.incs[1]) = CreatedAt(fs, chain.incs[2])

\* C4: with every full backup newer than the target (or none at all) the call
\* raises the no-suitable-baseline error without running the restore tool.
C4_NoSuitableBaseline ==
    (PitrStarted /\ \A p \in FullBackups : CreatedAt(fs, p) > call.target)
    => /\ pc = "idle"
       /\ res.op = PointInTime
       /\ res.outcome = "NoSuitableBaseline"
       /\ chain.full = NoPath
       /\ toolLog = <<>>

\* the error was raised over a catalog holding full backups, all newer than
\* the target, and an incremental at or before it
C4_Witness ==
    /\ PitrDone("NoSuitableBaseline")
    /\ FullBackups # {}
    /\ \A p \in FullBackups : CreatedAt(fs, p) > call.target
    /\ \E p \in IncrementalBackups : CreatedAt(fs, p) <= call.target

\* C5: while the replay runs the restore tool has been run on the first idx
\* artifacts of the chain, in chain order; after a successful return it has
\* been run exactly once on each artifact, the full backup first and the
\* incrementals in ascending order, each time on that artifact's content.
C5_ReplayInChainOrder ==
    /\ (PitrStarted /\ pc = "applying")
       => /\ Len(toolLog) = idx
          /\ \A i \in 1..idx : toolLog[i].artifact = ChainSeq(chain)[i]
    /\ PitrDone("ok")
       => /\ Len(toolLog) = 1 + Len(chain.incs)
          /\ \A i \in 1..Len(toolLog) :
                /\ toolLog[i].tool = "mysql"
                /\ toolLog[i].exitOk
                /\ toolLog[i].artifact = ChainSeq(chain)[i]
                /\ toolLog[i].data = ArtifactData(fs, toolLog[i].artifact)
          /\ \A i, j \in 1..Len(toolLog) : i # j => toolLog[i].artifact # toolLog[j].artifact
          /\ \A i, j \in 2..Len(toolLog) :
                i < j => CreatedAt(fs, toolLog[i].artifact) <= CreatedAt(fs, toolLog[j].artifact)

\* a successful replay of a compressed full backup and at least one incremental
C5_Witness ==
    /\ PitrDone("ok")
    /\ chain.full.gz
    /\ Len(chain.incs) >= 1

\* C6: a non-zero exit of the restore tool is the last thing the replay does:
\* the failed run is the last of the log, it is the run on artifact idx + 1 of
\* the chain, the call ends by raising RestoreToolFailed and backups/temp is
\* gone (with everything in it) when it has.
C6_ReplayStopsAtFailure ==
    (PitrStarted /\ \E i \in 1..Len(toolLog) : ~toolLog[i].exitOk)
    => /\ ~toolLog[Len(toolLog)].exitOk
       /\ \A i \in 1..(Len(toolLog) - 1) : toolLog[i].exitOk
       /\ Len(toolLog) = idx + 1
       /\ \A i \in 1..Len(toolLog) : toolLog[i].artifact = ChainSeq(chain)[i]
       /\ \/ pc = "finally" /\ pending = "RestoreToolFailed"
          \/ /\ PitrDone("RestoreToolFailed")
             /\ ~tempDirExists
             /\ Glob(fs, TempDir) = {}

\* the restore tool failed on the full backup of a chain that has incrementals,
\* and the call has raised
C6_Witness ==
    /\ PitrDone("RestoreToolFailed")
    /\ idx = 0
    /\ Len(chain.incs) >= 1
    /\ Len(toolLog) = 1

\* C7 (as claimed): once restore_to_point_in_time has returned or raised,
\* backups/temp does not exist.
C7_TempDirGoneAfterPointInTime ==
    (PitrStarted /\ pc = "idle") => ~tempDirExists

\* the transient decompressed copies: temp_restore*.sql, wherever they are
TransientRestoreFiles(f) == {p \in DOMAIN f : p.stem = "temp_restore"}

\* C8 (as claimed): once a stand-alone restore_backup of a compressed artifact
\* has returned or raised, no transient decompressed copy exists.
C8_TransientFileGoneAfterRestore ==
    (/\ pc = "idle"
     /\ call.op \in {"RestoreManager.restore_backup", "BackupManager.restore_backup"}
     /\ call.file.gz)
    => TransientRestoreFiles(fs) = {}

CreateOps ==
    {"BackupManager.create_full_backup", "BackupManager.create_incremental_backup",
     "dboperations.create_full_backup", "dboperations.create_incremental_backup"}

IncrementalOps ==
    {"BackupManager.create_incremental_backup", "dboperations.create_incremental_backup"}

\* C9 (as claimed): a create call in which the dump tool exits non-zero leaves
\* the catalog as it was: the same files with the same st_mtime and content.
C9_FailedDumpLeavesNoFile ==
    [][(/\ pc = "idle"
        /\ calls' = calls + 1
        /\ call'.op \in CreateOps
        /\ pc' = "idle"
        /\ res'.outcome = "DumpToolFailed")
       => /\ Catalog(fs') = Catalog(fs)
          /\ \A p \in Catalog(fs) : fs'[p] = fs[p]]_vars

\* C10 (as claimed): a create_incremental_backup call made while full/ is
\* empty raises the no-baseline error, runs no dump and leaves incremental/
\* as it was.
C10_IncrementalNeedsBaseline ==
    [][(/\ pc = "idle"
        /\ calls' = calls + 1
        /\ call'.op \in IncrementalOps
        /\ Glob(fs, FullDir) = {})
       => /\ pc' = "idle"
          /\ res'.op = call'.op
          /\ res'.outcome = "NoBaselineBackup"
          /\ toolLog' = <<>>
          /\ Glob(fs', IncrementalDir) = Glob(fs, IncrementalDir)
          /\ \A p \in Glob(fs, IncrementalDir) : fs'[p] = fs[p]]_vars

RestoreOps ==
    {"RestoreManager.restore_backup", "BackupManager.restore_backup", PointInTime}

\* C11: no step of a restore_backup, restore_to_point_in_time or listing call
\* adds, removes or rewrites a file of full/ or incremental/: the catalog holds
\* the same artifacts with the same content and st_mtime (createdAt) after the
\* step as before it, whether the call succeeds or fails.
C11_RestoreAndListLeaveCatalogUnchanged ==
    [][call'.op \in RestoreOps \cup ListOps
       => /\ Catalog(fs') = Catalog(fs)
          /\ \A p \in Catalog(fs) : fs'[p] = fs[p]]_vars

\* a compressed artifact was restored by BackupManager.restore_backup and is
\* still in the catalog
C11_Witness ==
    /\ pc = "idle"
    /\ call.op = "BackupManager.restore_backup"
    /\ res.outcome = "ok"
    /\ call.file.gz
    /\ call.file \in Catalog(fs)

\* C12 (as claimed): a create call that succeeds adds exactly one artifact to
\* its lineage, at a path the catalog did not hold before, and leaves every
\* artifact that was there (of either lineage) as it was.  Stated of the
\* create calls that run from start to return in one step: the uncompressed
\* BackupManager creates and the dboperations creates.
C12_CreateAddsOneNewArtifact ==
    [][(/\ pc = "idle"
        /\ calls' = calls + 1
        /\ call'.op \in CreateOps
        /\ pc' = "idle"
        /\ res'.outcome = "ok")
       => /\ res'.value \notin Catalog(fs)
          /\ Catalog(fs') = Catalog(fs) \cup {res'.value}
          /\ res'.value.dir = call'.file.dir
          /\ \A p \in Catalog(fs) : fs'[p] = fs[p]]_vars

\* a listing call is the last call that ran: res.value is what it returned
Listed == pc = "idle" /\ call.op \in ListOps /\ res.op \in ListOps

\* seq lists exactly the files of directory dir, each once, ascending by
\* createdAt
ListsDirectory(seq, dir) ==
    /\ Range(seq) = Glob(fs, dir)
    /\ Len(seq) = Cardinality(Glob(fs, dir))
    /\ \A i, j \in 1..Len(seq) :
          i < j => CreatedAt(fs, seq[i]) <= CreatedAt(fs, seq[j])

\* C13: a listing returns, for each lineage, every file of that lineage's
\* directory, compressed or not, each once and no other file, ascending by
\* createdAt; no file of one lineage is listed under the other.
C13_ListingIsTheCatalogInOrder ==
    Listed
    => /\ ListsDirectory(res.value.full, FullDir)
       /\ ListsDirectory(res.value.incs, IncrementalDir)
       /\ Range(res.value.full) \cap Range(res.value.incs) = {}
       /\ Range(res.value.full) \cup Range(res.value.incs) = Catalog(fs)

\* a listing of a full lineage holding a compressed and an uncompressed file,
\* beside a non-empty incremental lineage
C13_Witness ==
    /\ Listed
    /\ \E p, q \in Range(res.value.full) : p.gz /\ ~q.gz
    /\ res.value.incs # <<>>

\* C14: a listing call changes no file and no directory, and a listing call
\* made right after another listing call (time may have passed, no other call
\* ran) returns the same two sequences as the one before.
C14_ListingIsReadOnlyAndIdempotent ==
    [][(calls' = calls + 1 /\ call'.op \in ListOps)
       => /\ fs' = fs
          /\ tempDirExists' = tempDirExists
          /\ Listed => res'.value = res.value]_vars

\* a listing that was not the first call returned two files of equal st_mtime,
\* the case in which the order rests on the directory's own order
C14_Witness ==
    /\ Listed
    /\ calls >= 2
    /\ \E i \in 1..(Len(res.value.full) - 1) :
          fs[res.value.full[i]].mtime = fs[res.value.full[i + 1]].mtime

\* C15: _compress_file writes path.gz beside the original and touches nothing
\* else; when it returns, the original path is gone, path.gz is there and is
\* the value returned, and no other file has changed.  _decompress_file leaves
\* its source (and every file but the destination) as it was and, when the
\* stream is sound, the destination holds the uncompressed content.
C15_CompressReplacesDecompressCopies ==
    [][/\ (pc = "compressing" /\ pc' # "compressing")
          => /\ DOMAIN fs' = DOMAIN fs \cup {WithGz(call.file)}
             /\ \A p \in DOMAIN fs \ {WithGz(call.file)} : fs'[p] = fs[p]
       /\ (pc = "removing" /\ pc' = "idle")
          => /\ DOMAIN fs' = DOMAIN fs \ {call.file}
             /\ WithGz(call.file) \in DOMAIN fs'
             /\ \A p \in DOMAIN fs' : fs'[p] = fs[p]
             /\ res'.outcome = "ok"
             /\ res'.value = WithGz(call.file)
       /\ (calls' = calls + 1 /\ call'.op = "_decompress_file")
          => /\ DOMAIN fs' = DOMAIN fs \cup {res'.value}
             /\ call'.file \in DOMAIN fs'
             /\ \A p \in DOMAIN fs \ {res'.value} : fs'[p] = fs[p]
             /\ res'.outcome = "ok"
                => fs'[res'.value].content = GzipPayload(fs[call'.file].content)]_vars

\* a file was compressed and the compressed file then decompressed to
\* backups/temp.sql: the source is still there, the original is not
C15_Witness ==
    /\ pc = "idle"
    /\ call.op = "_decompress_file"
    /\ res.outcome = "ok"
    /\ DOMAIN fs = {call.file, BackupPath(BackupDir, "temp", NoStamp, FALSE)}
    /\ fs[call.file].content = Gzip(pending)
    /\ pending # <<>>

\* C16: decompressing the file a successful _compress_file has just returned
\* succeeds and yields the content that was handed to _compress_file, for
\* every content, the empty one included.
C16_RoundTrip ==
    [][(/\ pc = "idle"
        /\ res.op = "_compress_file"
        /\ res.outcome = "ok"
        /\ calls' = calls + 1
        /\ call'.op = "_decompress_file"
        /\ call'.file = res.value)
       => /\ res'.outcome = "ok"
          /\ fs'[res'.value].content = pending]_vars

\* the round trip of the empty content: its compressed form (not a 0-byte
\* file) was decompressed into a 0-byte copy
C16_Witness ==
    /\ pc = "idle"
    /\ calls = 2
    /\ call.op = "_decompress_file"
    /\ res.outcome = "ok"
    /\ pending = <<>>
    /\ fs[call.file].content = Gzip(<<>>)
    /\ fs[res.value].content = <<>>

\* a complete gzip stream: what Gzip yields for some payload
IntactGzip(y) == Len(y) >= 2 /\ y[1] = 0 /\ y[Len(y)] = 2 - Len(y)

\* artifact p is compressed and its file is not a complete gzip stream
Truncated(f, p) == p.gz /\ ~IntactGzip(f[p].content)

\* C17 (as claimed): a restore of a truncated compressed artifact fails with
\* the codec error: the restore tool is not run, the replay of a chain stops
\* there, and the catalog is left as it was.
C17_TruncatedArtifactFailsRestore ==
    [][/\ (/\ calls' = calls + 1
           /\ call'.op \in {"RestoreManager.restore_backup", "BackupManager.restore_backup"}
           /\ Truncated(fs, call'.file))
          => /\ res'.outcome = "CodecError"
             /\ toolLog' = <<>>
             /\ \A p \in Catalog(fs) : p \in Catalog(fs') /\ fs'[p] = fs[p]
       /\ (/\ pc = "applying"
           /\ pc' # pc
           /\ Truncated(fs, NextArtifact(chain, idx)))
          => /\ pc' = "finally"
             /\ pending' = "CodecError"
             /\ toolLog' = toolLog
             /\ \A p \in Catalog(fs) : p \in Catalog(fs') /\ fs'[p] = fs[p]]_vars

\* the handled failures of a command: dump tool, restore tool, missing backup
\* file, no baseline (for an incremental backup, for a point in time), and a
\* compressed artifact that cannot be read
HandledFailures ==
    {"DumpToolFailed", "RestoreToolFailed", "BackupFileNotFound", "NoBaselineBackup",
     "NoSuitableBaseline", "CodecError"}

CommandOps ==
    {"cli.py backup", "cli.py list", "cli.py upload", "cli.py restore",
     "restore.py list", "restore.py restore", "restore.py point"}

\* C18 (as claimed): a command whose operation succeeded exits with code 0,
\* and a command whose operation hit a handled failure exits with code 1.
C18_ExitCodeReflectsOutcome ==
    res.op \in CommandOps
    => /\ res.outcome = "ok" => exitCode = 0
       /\ res.outcome \in HandledFailures => exitCode = 1

\* the upload attempts among the external calls of a command
Uploads(log) == SelectSeq(log, LAMBDA inv : inv.tool \in Providers)

\* C19: whatever happens to the notifications of an upload command (module
\* not importable, no webhook URL, failed post), nothing is raised out of
\* notify_backup_status or out of handle_upload, and the command makes the
\* same upload attempts, in the same order and with the same results, and
\* ends the same way as it does when every notification is delivered.
C19_NotificationFailureIsHarmless ==
    res.op = "cli.py upload"
    => LET h == HandleUpload(fs, call.which, call.provider, call.credentials,
                             call.uploadOk, call.notify)
           delivered == HandleUpload(fs, call.which, call.provider, call.credentials,
                                     call.uploadOk, "ok")
       IN  /\ toolLog = h.log
           /\ h.escaped = "none"
           /\ exitCode = CliExitCode(delivered.escaped)
           /\ Uploads(toolLog) = Uploads(delivered.log)
           /\ h.failed = delivered.failed
           /\ \A a \in Catalog(fs) :
                 NotifyBackupStatus(call.notify, a, TRUE).raised = "none"

\* an upload of all artifacts in which the notifications module could not be
\* imported, and two artifacts or more were uploaded all the same
C19_Witness ==
    /\ res.op = "cli.py upload"
    /\ call.which = "all"
    /\ call.notify = "import_error"
    /\ Len(Uploads(toolLog)) >= 2

\* C20 (as claimed): a backup command with --upload whose dump succeeded
\* returns the created artifact's path from handle_backup, whatever becomes
\* of the upload, and the artifact is in the catalog.
C20_FailedUploadKeepsBackup ==
    (/\ res.op = "cli.py backup"
     /\ call.provider \in Providers
     /\ res.outcome = "ok")
    => /\ res.value # NoPath
       /\ res.value \in Catalog(fs)

\* the artifacts backup_to_cloud was called on by the upload command that
\* ran last, in call order: those whose upload function was entered and, when
\* a call raised, the artifact of that call
UploadAttempts ==
    IF AllBackups(fs) = <<>> \/ CloudArgsRaise(call.provider, call.credentials)
    THEN <<>>
    ELSE LET loop == UploadLoop(fs, BackupFiles(fs, call.which), 1, call.provider,
                                CloudArgs(call.provider, call.credentials),
                                call.uploadOk, call.notify)
             entered == Uploads(loop.log)
         IN  [i \in 1..Len(entered) |-> entered[i].artifact] \o
             (IF loop.raised = "none" THEN <<>>
              ELSE <<BackupFiles(fs, call.which)[loop.at]>>)

\* C21 (as claimed): `upload all` makes exactly one upload attempt for every
\* artifact of the catalog, whatever became of the earlier attempts, and
\* `upload latest` makes exactly one attempt, for an artifact whose createdAt
\* no artifact of either lineage exceeds.
C21_UploadsAreIndependent ==
    (res.op = "cli.py upload" /\ Catalog(fs) # {})
    => /\ toolLog = HandleUpload(fs, call.which, call.provider, call.credentials,
                                 call.uploadOk, call.notify).log
       /\ call.which = "all"
          => /\ Range(UploadAttempts) = Catalog(fs)
             /\ Len(UploadAttempts) = Cardinality(Catalog(fs))
       /\ call.which = "latest"
          => /\ Len(UploadAttempts) = 1
             /\ \A p \in Catalog(fs) :
                   CreatedAt(fs, p) <= CreatedAt(fs, UploadAttempts[1])

\* a step in which BackupManager.create_incremental_backup runs the dump tool
ManagerIncrementalDumps ==
    /\ pc = "idle"
    /\ calls' = calls + 1
    /\ call'.op = "BackupManager.create_incremental_backup"
    /\ toolLog' # <<>>

\* C22 (as claimed): the since-timestamp BackupManager.create_incremental_backup
\* hands to the dump tool's row filter is the createdAt (formatted to whole
\* seconds, as the filter takes it) of the most recent full backup of the
\* catalog, compressed or not, and so never later than that createdAt.
C22_SinceIsBaselineCreatedAt ==
    [][ManagerIncrementalDumps
       => \E b \in LastFullBackups(fs) :
             /\ toolLog'[1].since = Strftime(CreatedAt(fs, b))
             /\ toolLog'[1].since * MicrosPerSecond <= CreatedAt(fs, b)]_vars

\* the transient decompressed copies: temp.sql, temp_restore.sql, and
\* temp_restore_<stamp>.sql, the only files written under backups/temp
TransientFiles(f) == {p \in DOMAIN f : p.stem \in {"temp", "temp_restore"}}

\* C23: in every reachable state, between the steps of an operation and
\* after failed operations too, no transient file lies in full/ or
\* incremental/, and neither a listing nor a selected chain holds one.
C23_NoTransientFileInCatalog ==
    /\ TransientFiles(fs) \cap Catalog(fs) = {}
    /\ Range(ListBackups(fs).full \o ListBackups(fs).incs) \cap TransientFiles(fs) = {}
    /\ chain # NoChain => Range(ChainSeq(chain)) \cap TransientFiles(fs) = {}

\* a replay has failed and its transient copy still lies in backups/temp,
\* before the finally block runs, with artifacts in the catalog
C23_Witness ==
    /\ pc = "finally"
    /\ pending # "ok"
    /\ \E p \in TransientFiles(fs) : p.dir = TempDir
    /\ Catalog(fs) # {}

\* C24 (as claimed): whenever no backup creation is in progress, whether the
\* completed create calls returned or raised, the catalog holds no
\* uncompressed file X.sql together with its compressed form X.sql.gz.
C24_OneEntryPerBackup ==
    pc = "idle" => \A p \in Catalog(fs) : ~p.gz => WithGz(p) \notin Catalog(fs)

====
